---- MODULE Spec2Model ----
(***************************************************************************)
(* A model of editline: the LineBuffer, the History ring and the read_line *)
(* protocol of LineEditor (blocking) and AsyncLineEditor (suspend-based).  *)
(* Text is modelled as sequences of bytes (0..255), characters as Unicode  *)
(* scalar values; Option<T> is <<>> for None and <<x>> for Some(x).        *)
(* Indices are 0-based as in the source; a TLA+ sequence s holds the       *)
(* element of index i at s[i + 1].                                         *)
(***************************************************************************)
EXTENDS Integers, Sequences, FiniteSets, TLC

\* ------------------------------------------------------------------ bounds
\* Longest line buffer (bytes) the LineBuffer specification explores.
MaxBufLen == 3
\* Longest line (bytes) typed in one read_line call of the engine specification.
MaxLineLen == 2
\* Largest History capacity explored (capacities 1..MaxCap).
MaxCap == 2
\* Number of add calls of the History specification.
MaxAdds == 4
\* Number of read_line calls of the engine specification.
MaxReads == 3
\* Number of key events other than Enter handled in one run of the engine.
MaxKeys == 5

\* ------------------------------------------------------------------ options
None == <<>>
Some(x) == <<x>>
IsSome(o) == o # <<>>
Unwrap(o) == o[1]

\* ------------------------------------------------------------------ UTF-8
\* char::encode_utf8: the UTF-8 bytes of the scalar value c.
encode_utf8(c) ==
    IF c < 128 THEN <<c>>
    ELSE IF c < 2048 THEN <<192 + (c \div 64), 128 + (c % 64)>>
    ELSE IF c < 65536 THEN
        <<224 + (c \div 4096), 128 + ((c \div 64) % 64), 128 + (c % 64)>>
    ELSE <<240 + (c \div 262144), 128 + ((c \div 4096) % 64),
           128 + ((c \div 64) % 64), 128 + (c % 64)>>

IsCont(b) == b >= 128 /\ b <= 191

\* Width of the well-formed UTF-8 sequence that starts at b[i] (1-based), 0 if none.
Utf8Width(b, i) ==
    LET n == Len(b)
        x == b[i]
        y == IF i + 1 <= n THEN b[i + 1] ELSE 0
        z == IF i + 2 <= n THEN b[i + 2] ELSE 0
        w == IF i + 3 <= n THEN b[i + 3] ELSE 0
    IN  IF x < 128 THEN 1
        ELSE IF x >= 194 /\ x <= 223 THEN (IF IsCont(y) THEN 2 ELSE 0)
        ELSE IF x >= 224 /\ x <= 239 THEN
            (IF /\ IsCont(z)
                /\ CASE x = 224 -> y >= 160 /\ y <= 191
                     [] x = 237 -> y >= 128 /\ y <= 159
                     [] OTHER   -> IsCont(y)
             THEN 3 ELSE 0)
        ELSE IF x >= 240 /\ x <= 244 THEN
            (IF /\ IsCont(z) /\ IsCont(w)
                /\ CASE x = 240 -> y >= 144 /\ y <= 191
                     [] x = 244 -> y >= 128 /\ y <= 143
                     [] OTHER   -> IsCont(y)
             THEN 4 ELSE 0)
        ELSE 0

RECURSIVE ValidFrom(_, _)
ValidFrom(b, i) ==
    IF i > Len(b) THEN TRUE
    ELSE LET w == Utf8Width(b, i)
         IN  IF w = 0 THEN FALSE ELSE ValidFrom(b, i + w)

\* core::str::from_utf8(..).is_ok()
from_utf8_ok(b) == ValidFrom(b, 1)

\* The scalar value of the well-formed sequence of width w at b[i].
DecodeAt(b, i, w) ==
    CASE w = 1 -> b[i]
      [] w = 2 -> (b[i] - 192) * 64 + (b[i + 1] - 128)
      [] w = 3 -> (b[i] - 224) * 4096 + (b[i + 1] - 128) * 64 + (b[i + 2] - 128)
      [] OTHER -> (b[i] - 240) * 262144 + (b[i + 1] - 128) * 4096
                    + (b[i + 2] - 128) * 64 + (b[i + 3] - 128)

\* char::is_whitespace: the Unicode White_Space property.
is_whitespace(c) ==
    \/ c >= 9 /\ c <= 13
    \/ c \in {32, 133, 160, 5760, 8232, 8233, 8239, 8287, 12288}
    \/ c >= 8192 /\ c <= 8202

\* str::trim_start on valid UTF-8: drop leading White_Space characters.
RECURSIVE trim_start(_)
trim_start(b) ==
    IF b = <<>> THEN b
    ELSE LET w == Utf8Width(b, 1)
         IN  IF w > 0 /\ is_whitespace(DecodeAt(b, 1, w))
             THEN trim_start(SubSeq(b, w + 1, Len(b)))
             ELSE b

\* Start (1-based) of the last character of the valid UTF-8 text b.
RECURSIVE LastCharStart(_, _)
LastCharStart(b, i) ==
    IF i > 1 /\ IsCont(b[i]) THEN LastCharStart(b, i - 1) ELSE i

\* str::trim_end on valid UTF-8: drop trailing White_Space characters.
RECURSIVE trim_end(_)
trim_end(b) ==
    IF b = <<>> THEN b
    ELSE LET s == LastCharStart(b, Len(b))
             w == Len(b) - s + 1
         IN  IF Utf8Width(b, s) = w /\ is_whitespace(DecodeAt(b, s, w))
             THEN trim_end(SubSeq(b, 1, s - 1))
             ELSE b

\* str::trim
trim(b) == trim_end(trim_start(b))

\* ------------------------------------------------------------------ LineBuffer
\* A LineBuffer is a record [buffer: bytes, cursor_pos: 0-based byte offset].

\* Vec::insert(index, byte)
VecInsert(v, index, byte) ==
    SubSeq(v, 1, index) \o <<byte>> \o SubSeq(v, index + 1, Len(v))

\* Vec::remove(index)
VecRemove(v, index) ==
    SubSeq(v, 1, index) \o SubSeq(v, index + 2, Len(v))

LineBuffer_new == [buffer |-> <<>>, cursor_pos |-> 0]

\* clear that resets the cursor and keeps the bytes.
clear_keeps_buffer(lb) == [buffer |-> lb.buffer, cursor_pos |-> 0]

clear(lb) == [buffer |-> <<>>, cursor_pos |-> 0]

\* as_str: Ok(text) is Some(bytes), Err(InvalidUtf8) is None.
as_str(lb) == IF from_utf8_ok(lb.buffer) THEN Some(lb.buffer) ELSE None

as_bytes(lb) == lb.buffer

\* The loop of insert_char: insert each byte at the cursor and step over it.
RECURSIVE InsertBytes(_, _)
InsertBytes(lb, bytes) ==
    IF bytes = <<>> THEN lb
    ELSE InsertBytes([buffer |-> VecInsert(lb.buffer, lb.cursor_pos, Head(bytes)),
                      cursor_pos |-> lb.cursor_pos + 1],
                     Tail(bytes))

\* insert_char that inserts every byte at the same offset and moves the
\* cursor afterwards.
insert_char_cursor_after(lb, c) ==
    LET bytes == encode_utf8(c)
        n == Len(bytes)
    IN  [buffer |-> SubSeq(lb.buffer, 1, lb.cursor_pos)
                      \o [i \in 1..n |-> bytes[n + 1 - i]]
                      \o SubSeq(lb.buffer, lb.cursor_pos + 1, Len(lb.buffer)),
         cursor_pos |-> lb.cursor_pos + n]

insert_char(lb, c) == InsertBytes(lb, encode_utf8(c))

\* Operations that return a value yield [lb |-> the buffer after, ret |-> the value].
delete_before_cursor(lb) ==
    IF lb.cursor_pos > 0
    THEN [lb |-> [buffer |-> VecRemove(lb.buffer, lb.cursor_pos - 1),
                  cursor_pos |-> lb.cursor_pos - 1],
          ret |-> TRUE]
    ELSE [lb |-> lb, ret |-> FALSE]

\* delete_at_cursor with an inclusive bound test.
delete_at_cursor_no_edge(lb) ==
    IF lb.cursor_pos <= Len(lb.buffer)
    THEN [lb |-> [lb EXCEPT !.buffer = VecRemove(lb.buffer, lb.cursor_pos)],
          ret |-> TRUE]
    ELSE [lb |-> lb, ret |-> FALSE]

delete_at_cursor(lb) ==
    IF lb.cursor_pos < Len(lb.buffer)
    THEN [lb |-> [lb EXCEPT !.buffer = VecRemove(lb.buffer, lb.cursor_pos)],
          ret |-> TRUE]
    ELSE [lb |-> lb, ret |-> FALSE]

move_cursor_left(lb) ==
    IF lb.cursor_pos > 0
    THEN [lb |-> [lb EXCEPT !.cursor_pos = lb.cursor_pos - 1], ret |-> TRUE]
    ELSE [lb |-> lb, ret |-> FALSE]

\* move_cursor_right without its bound check.
move_cursor_right_unchecked(lb) ==
    [lb |-> [lb EXCEPT !.cursor_pos = lb.cursor_pos + 1], ret |-> TRUE]

move_cursor_right(lb) ==
    IF lb.cursor_pos < Len(lb.buffer)
    THEN [lb |-> [lb EXCEPT !.cursor_pos = lb.cursor_pos + 1], ret |-> TRUE]
    ELSE [lb |-> lb, ret |-> FALSE]

\* move_cursor_to_start reporting the buffer length as the distance moved.
move_cursor_to_start_counts_len(lb) ==
    [lb |-> [lb EXCEPT !.cursor_pos = 0], ret |-> Len(lb.buffer)]

move_cursor_to_start(lb) ==
    [lb |-> [lb EXCEPT !.cursor_pos = 0], ret |-> lb.cursor_pos]

move_cursor_to_end(lb) ==
    [lb |-> [lb EXCEPT !.cursor_pos = Len(lb.buffer)],
     ret |-> Len(lb.buffer) - lb.cursor_pos]

is_word_char(c) ==
    \/ c >= 48 /\ c <= 57
    \/ c >= 65 /\ c <= 90
    \/ c >= 97 /\ c <= 122
    \/ c = 95

\* while pos > 0 && is_word_char(buffer[pos - 1]) == word { pos -= 1 }
RECURSIVE SkipLeft(_, _, _)
SkipLeft(buffer, pos, word) ==
    IF pos > 0 /\ is_word_char(buffer[pos]) = word
    THEN SkipLeft(buffer, pos - 1, word)
    ELSE pos

\* while pos < len && is_word_char(buffer[pos]) == word { pos += 1 }
RECURSIVE SkipRight(_, _, _)
SkipRight(buffer, pos, word) ==
    IF pos < Len(buffer) /\ is_word_char(buffer[pos + 1]) = word
    THEN SkipRight(buffer, pos + 1, word)
    ELSE pos

\* find_word_start_left that does not cross the gap before the cursor.
find_word_start_left_no_gap(lb) ==
    IF lb.cursor_pos = 0 THEN 0
    ELSE SkipLeft(lb.buffer, lb.cursor_pos, TRUE)

find_word_start_left(lb) ==
    IF lb.cursor_pos = 0 THEN 0
    ELSE LET pos == lb.cursor_pos
         IN  IF pos > 0 /\ is_word_char(lb.buffer[pos])
             THEN SkipLeft(lb.buffer, pos, TRUE)
             ELSE SkipLeft(lb.buffer, SkipLeft(lb.buffer, pos, FALSE), TRUE)

find_word_start_right(lb) ==
    IF lb.cursor_pos >= Len(lb.buffer) THEN Len(lb.buffer)
    ELSE LET pos == lb.cursor_pos
             p1 == IF pos < Len(lb.buffer) /\ is_word_char(lb.buffer[pos + 1])
                   THEN SkipRight(lb.buffer, pos, TRUE)
                   ELSE pos
         IN  SkipRight(lb.buffer, p1, FALSE)

move_cursor_word_left(lb) ==
    LET target == find_word_start_left(lb)
    IN  [lb |-> [lb EXCEPT !.cursor_pos = target], ret |-> lb.cursor_pos - target]

move_cursor_word_right(lb) ==
    LET target == find_word_start_right(lb)
    IN  [lb |-> [lb EXCEPT !.cursor_pos = target], ret |-> target - lb.cursor_pos]

\* for _ in 0..count { if cursor_pos > 0 { cursor_pos -= 1; buffer.remove(cursor_pos) } }
RECURSIVE RemoveLeft(_, _)
RemoveLeft(lb, count) ==
    IF count = 0 THEN lb
    ELSE RemoveLeft(IF lb.cursor_pos > 0
                    THEN [buffer |-> VecRemove(lb.buffer, lb.cursor_pos - 1),
                          cursor_pos |-> lb.cursor_pos - 1]
                    ELSE lb,
                    count - 1)

\* for _ in 0..count { if cursor_pos < len { buffer.remove(cursor_pos) } }
RECURSIVE RemoveRight(_, _)
RemoveRight(lb, count) ==
    IF count = 0 THEN lb
    ELSE RemoveRight(IF lb.cursor_pos < Len(lb.buffer)
                     THEN [lb EXCEPT !.buffer = VecRemove(lb.buffer, lb.cursor_pos)]
                     ELSE lb,
                     count - 1)

\* delete_word_left that leaves the first byte of the span in place.
delete_word_left_one_short(lb) ==
    LET target == find_word_start_left(lb)
        count == lb.cursor_pos - target
    IN  [lb |-> RemoveLeft(lb, IF count > 1 THEN count - 1 ELSE count),
         ret |-> count]

delete_word_left(lb) ==
    LET target == find_word_start_left(lb)
        count == lb.cursor_pos - target
    IN  [lb |-> RemoveLeft(lb, count), ret |-> count]

delete_word_right(lb) ==
    LET target == find_word_start_right(lb)
        count == target - lb.cursor_pos
    IN  [lb |-> RemoveRight(lb, count), ret |-> count]

load(lb, text) == [buffer |-> text, cursor_pos |-> Len(text)]

\* ------------------------------------------------------------------ History
\* A History is a record [entries, capacity, current_entry, viewing_entry,
\* saved_line]; entries is a Vec<String>, viewing_entry an Option<usize>,
\* saved_line an Option<String>.

History_new(capacity) ==
    [entries |-> <<>>, capacity |-> capacity, current_entry |-> 0,
     viewing_entry |-> None, saved_line |-> None]

\* entries.last()
last(entries) == IF entries = <<>> THEN None ELSE Some(entries[Len(entries)])

\* add that always appends, also when the ring is full.
add_always_push(h, line) ==
    LET trimmed == trim(line)
    IN  IF trimmed = <<>> THEN h
        ELSE IF IsSome(last(h.entries)) /\ Unwrap(last(h.entries)) = trimmed THEN h
        ELSE [h EXCEPT !.entries = Append(h.entries, trimmed),
                       !.current_entry = Len(h.entries),
                       !.viewing_entry = None,
                       !.saved_line = None]

\* add without the test for an empty line.
add_no_empty_check(h, line) ==
    LET trimmed == trim(line)
    IN  IF IsSome(last(h.entries)) /\ Unwrap(last(h.entries)) = trimmed THEN h
        ELSE IF Len(h.entries) < h.capacity
        THEN [h EXCEPT !.entries = Append(h.entries, trimmed),
                       !.current_entry = Len(h.entries),
                       !.viewing_entry = None,
                       !.saved_line = None]
        ELSE LET cur == (h.current_entry + 1) % h.capacity
             IN  [h EXCEPT !.entries = [h.entries EXCEPT ![cur + 1] = trimmed],
                           !.current_entry = cur,
                           !.viewing_entry = None,
                           !.saved_line = None]

\* add that steps the write cursor of a full ring without wrapping it.
add_no_wrap(h, line) ==
    LET trimmed == trim(line)
    IN  IF trimmed = <<>> THEN h
        ELSE IF IsSome(last(h.entries)) /\ Unwrap(last(h.entries)) = trimmed THEN h
        ELSE IF Len(h.entries) < h.capacity
        THEN [h EXCEPT !.entries = Append(h.entries, trimmed),
                       !.current_entry = Len(h.entries),
                       !.viewing_entry = None,
                       !.saved_line = None]
        ELSE [h EXCEPT !.current_entry = h.current_entry + 1,
                       !.viewing_entry = None,
                       !.saved_line = None]

add(h, line) ==
    LET trimmed == trim(line)
    IN  IF trimmed = <<>> THEN h
        ELSE IF IsSome(last(h.entries)) /\ Unwrap(last(h.entries)) = trimmed THEN h
        ELSE IF Len(h.entries) < h.capacity
        THEN [h EXCEPT !.entries = Append(h.entries, trimmed),
                       !.current_entry = Len(h.entries),
                       !.viewing_entry = None,
                       !.saved_line = None]
        ELSE LET cur == (h.current_entry + 1) % h.capacity
             IN  [h EXCEPT !.entries = [h.entries EXCEPT ![cur + 1] = trimmed],
                           !.current_entry = cur,
                           !.viewing_entry = None,
                           !.saved_line = None]

\* History operations that return a value yield [h |-> the history after,
\* ret |-> the Option<&str> returned].

\* previous that drops the view when it has reached the oldest entry, so that
\* the next call starts again at the newest one.
previous_wraps(h, current_line) ==
    IF h.entries = <<>> THEN [h |-> h, ret |-> None]
    ELSE IF h.viewing_entry = None
    THEN [h |-> [h EXCEPT !.saved_line = Some(current_line),
                          !.viewing_entry = Some(h.current_entry)],
          ret |-> Some(h.entries[h.current_entry + 1])]
    ELSE LET idx == Unwrap(h.viewing_entry)
             prev == (idx + Len(h.entries) - 1) % Len(h.entries)
         IN  IF prev = h.current_entry \/ (Len(h.entries) < h.capacity /\ idx = 0)
             THEN [h |-> [h EXCEPT !.viewing_entry = None], ret |-> None]
             ELSE [h |-> [h EXCEPT !.viewing_entry = Some(prev)],
                   ret |-> Some(h.entries[prev + 1])]

\* previous that stashes its argument on every call.
previous_restashes(h, current_line) ==
    IF h.entries = <<>> THEN [h |-> h, ret |-> None]
    ELSE IF h.viewing_entry = None
    THEN [h |-> [h EXCEPT !.saved_line = Some(current_line),
                          !.viewing_entry = Some(h.current_entry)],
          ret |-> Some(h.entries[h.current_entry + 1])]
    ELSE LET idx == Unwrap(h.viewing_entry)
             hs == [h EXCEPT !.saved_line = Some(current_line)]
         IN  IF Len(h.entries) < h.capacity
             THEN IF idx > 0
                  THEN [h |-> [hs EXCEPT !.viewing_entry = Some(idx - 1)],
                        ret |-> Some(h.entries[idx])]
                  ELSE [h |-> hs, ret |-> None]
             ELSE LET prev == (idx + h.capacity - 1) % h.capacity
                  IN  IF prev = h.current_entry
                      THEN [h |-> hs, ret |-> None]
                      ELSE [h |-> [hs EXCEPT !.viewing_entry = Some(prev)],
                            ret |-> Some(h.entries[prev + 1])]

previous(h, current_line) ==
    IF h.entries = <<>> THEN [h |-> h, ret |-> None]
    ELSE IF h.viewing_entry = None
    THEN [h |-> [h EXCEPT !.saved_line = Some(current_line),
                          !.viewing_entry = Some(h.current_entry)],
          ret |-> Some(h.entries[h.current_entry + 1])]
    ELSE LET idx == Unwrap(h.viewing_entry)
         IN  IF Len(h.entries) < h.capacity
             THEN IF idx > 0
                  THEN [h |-> [h EXCEPT !.viewing_entry = Some(idx - 1)],
                        ret |-> Some(h.entries[idx])]
                  ELSE [h |-> h, ret |-> None]
             ELSE LET prev == (idx + h.capacity - 1) % h.capacity
                  IN  IF prev = h.current_entry
                      THEN [h |-> h, ret |-> None]
                      ELSE [h |-> [h EXCEPT !.viewing_entry = Some(prev)],
                            ret |-> Some(h.entries[prev + 1])]

\* next_entry that forgets the saved line when it steps past the newest entry.
next_entry_no_restore(h) ==
    IF h.viewing_entry = None THEN [h |-> h, ret |-> None]
    ELSE LET idx == Unwrap(h.viewing_entry)
             next == (idx + 1) % Len(h.entries)
         IN  IF idx = h.current_entry
             THEN [h |-> [h EXCEPT !.viewing_entry = None], ret |-> Some(<<>>)]
             ELSE [h |-> [h EXCEPT !.viewing_entry = Some(next)],
                   ret |-> Some(h.entries[next + 1])]

\* next_entry that leaves the view active when it returns the saved line.
next_entry_keeps_view(h) ==
    IF h.viewing_entry = None THEN [h |-> h, ret |-> None]
    ELSE LET idx == Unwrap(h.viewing_entry)
         IN  IF idx = h.current_entry
             THEN [h |-> h, ret |-> h.saved_line]
             ELSE LET next == (idx + 1) % Len(h.entries)
                  IN  [h |-> [h EXCEPT !.viewing_entry = Some(next)],
                       ret |-> Some(h.entries[next + 1])]

\* next_entry that hands out the saved line although no view is active.
next_entry_ignores_view(h) ==
    IF h.viewing_entry = None THEN [h |-> h, ret |-> h.saved_line]
    ELSE LET idx == Unwrap(h.viewing_entry)
         IN  IF idx = h.current_entry
             THEN [h |-> [h EXCEPT !.viewing_entry = None], ret |-> h.saved_line]
             ELSE LET next == (idx + 1) % Len(h.entries)
                  IN  [h |-> [h EXCEPT !.viewing_entry = Some(next)],
                       ret |-> Some(h.entries[next + 1])]

\* next_entry that drops the entry it steps away from.
next_entry_drops_entry(h) ==
    IF h.viewing_entry = None THEN [h |-> h, ret |-> None]
    ELSE LET idx == Unwrap(h.viewing_entry)
         IN  IF idx = h.current_entry
             THEN [h |-> [h EXCEPT !.viewing_entry = None], ret |-> h.saved_line]
             ELSE LET next == (idx + 1) % Len(h.entries)
                  IN  [h |-> [h EXCEPT !.viewing_entry = Some(next),
                                       !.entries = [@ EXCEPT ![idx + 1] = <<>>]],
                       ret |-> Some(h.entries[next + 1])]

next_entry(h) ==
    IF h.viewing_entry = None THEN [h |-> h, ret |-> None]
    ELSE LET idx == Unwrap(h.viewing_entry)
         IN  IF Len(h.entries) < h.capacity
             THEN IF idx < Len(h.entries) - 1
                  THEN [h |-> [h EXCEPT !.viewing_entry = Some(idx + 1)],
                        ret |-> Some(h.entries[idx + 2])]
                  ELSE [h |-> [h EXCEPT !.viewing_entry = None],
                        ret |-> h.saved_line]
             ELSE LET next == (idx + 1) % h.capacity
                  IN  IF next = (h.current_entry + 1) % h.capacity
                      THEN [h |-> [h EXCEPT !.viewing_entry = None],
                            ret |-> h.saved_line]
                      ELSE [h |-> [h EXCEPT !.viewing_entry = Some(next)],
                            ret |-> Some(h.entries[next + 1])]

\* reset_view that leaves the view as it is.
reset_view_keeps_view(h) == h

reset_view(h) == [h EXCEPT !.viewing_entry = None]

\* ------------------------------------------------------------------ engine
\* Result<String>: Ok(line) or Err(e). An Error is modelled by a tag: "Eof",
\* "Interrupted", "InvalidUtf8", and for Error::Io its message, which names
\* where the mock terminal raised it ("enter_raw_mode", "exit_raw_mode", or
\* "output" for write, flush, cursor_left, cursor_right and clear_eol).
Ok(l) == [ok |-> TRUE, line |-> l, err |-> ""]
Err(e) == [ok |-> FALSE, line |-> <<>>, err |-> e]

\* One call of a Terminal method, with the bytes passed to write.
Call(op, data) == [op |-> op, data |-> data]
Rep(c, n) == [i \in 1..n |-> c]

\* redraw_from_cursor that leaves the cursor after the suffix it wrote.
redraw_from_cursor_no_step_back(lb) ==
    LET remaining == SubSeq(as_bytes(lb), lb.cursor_pos + 1, Len(as_bytes(lb)))
    IN  <<Call("clear_eol", <<>>), Call("write", remaining)>>

\* The Terminal calls of redraw_from_cursor, in order.
redraw_from_cursor(lb) ==
    LET remaining == SubSeq(as_bytes(lb), lb.cursor_pos + 1, Len(as_bytes(lb)))
    IN  <<Call("clear_eol", <<>>), Call("write", remaining)>>
          \o Rep(Call("cursor_left", <<>>), Len(remaining))

\* The Terminal calls of clear_line_display, in order.
clear_line_display(lb) ==
    Rep(Call("cursor_left", <<>>), lb.cursor_pos) \o <<Call("clear_eol", <<>>)>>

\* load_history_into_line: the line after it, its Terminal calls, and the
\* number of those calls made before self.line.load(text).
load_history_into_line(lb, text) ==
    [line |-> load(lb, text),
     calls |-> clear_line_display(lb) \o <<Call("write", text)>>,
     pre |-> Len(clear_line_display(lb))]

\* handle_key_event on the editor ed = [line, history] when every Terminal
\* call succeeds: the line and history after it, the Terminal calls it makes
\* (the trailing flush included), the number of calls made before the line
\* changes (pre), and what History::previous / next_entry returned (hret).
\* handle_key_event without its closing flush.
handler_flush_none == <<>>

\* The flush that closes handle_key_event: terminal.flush()?; Ok(())
handler_flush == <<Call("flush", <<>>)>>

handle_key_event(ed, event) ==
    LET flush == handler_flush
        left == Call("cursor_left", <<>>)
        right == Call("cursor_right", <<>>)
        plain(l, h, calls) ==
            [line |-> l, history |-> h, calls |-> calls \o flush, pre |-> 0,
             hret |-> None]
        loaded(h, o) ==
            IF IsSome(o)
            THEN LET ld == load_history_into_line(ed.line, Unwrap(o))
                 IN  [line |-> ld.line, history |-> h, calls |-> ld.calls \o flush,
                      pre |-> ld.pre, hret |-> o]
            ELSE [line |-> ed.line, history |-> h, calls |-> flush, pre |-> 0,
                  hret |-> o]
    IN  CASE event.kind = "Normal" ->
               LET l == insert_char(ed.line, event.c)
               IN  plain(l, reset_view(ed.history),
                         <<Call("write", encode_utf8(event.c))>>
                           \o redraw_from_cursor(l))
          [] event.kind = "Left" ->
               LET m == move_cursor_left(ed.line)
               IN  plain(m.lb, ed.history, IF m.ret THEN <<left>> ELSE <<>>)
          [] event.kind = "Right" ->
               LET m == move_cursor_right(ed.line)
               IN  plain(m.lb, ed.history, IF m.ret THEN <<right>> ELSE <<>>)
          [] event.kind = "Up" ->
               LET current == IF IsSome(as_str(ed.line))
                              THEN Unwrap(as_str(ed.line)) ELSE <<>>
                   r == previous(ed.history, current)
               IN  loaded(r.h, r.ret)
          [] event.kind = "Down" ->
               LET r == next_entry(ed.history)
               IN  loaded(r.h, r.ret)
          [] event.kind = "Home" ->
               LET m == move_cursor_to_start(ed.line)
               IN  plain(m.lb, ed.history, Rep(left, m.ret))
          [] event.kind = "End" ->
               LET m == move_cursor_to_end(ed.line)
               IN  plain(m.lb, ed.history, Rep(right, m.ret))
          [] event.kind = "Backspace" ->
               LET m == delete_before_cursor(ed.line)
               IN  plain(m.lb, reset_view(ed.history),
                         IF m.ret THEN <<left>> \o redraw_from_cursor(m.lb)
                         ELSE <<>>)
          [] event.kind = "Delete" ->
               LET m == delete_at_cursor(ed.line)
               IN  plain(m.lb, reset_view(ed.history),
                         IF m.ret THEN redraw_from_cursor(m.lb) ELSE <<>>)
          [] event.kind = "CtrlLeft" ->
               LET m == move_cursor_word_left(ed.line)
               IN  plain(m.lb, ed.history, Rep(left, m.ret))
          [] event.kind = "CtrlRight" ->
               LET m == move_cursor_word_right(ed.line)
               IN  plain(m.lb, ed.history, Rep(right, m.ret))
          [] event.kind = "AltBackspace" ->
               LET m == delete_word_left(ed.line)
               IN  plain(m.lb, reset_view(ed.history),
                         Rep(left, m.ret) \o redraw_from_cursor(m.lb))
          [] event.kind = "CtrlDelete" ->
               LET m == delete_word_right(ed.line)
               IN  plain(m.lb, reset_view(ed.history), redraw_from_cursor(m.lb))
          [] OTHER -> plain(ed.line, ed.history, <<>>)

\* The line terminator read_line writes after Enter: "\n" in the blocking
\* engine built with std, "\r\n" in the suspend-based one.
Terminator(flv) == IF flv = "sync" THEN <<10>> ELSE <<13, 10>>

\* The Terminal calls read_line makes once Enter broke the loop, before it
\* reads the line out: the terminator write and the flush.
enter_calls(flv) == <<Call("write", Terminator(flv)), Call("flush", <<>>)>>

\* The tail of read_line's inner block once Enter broke the loop and the
\* terminator write and the flush succeeded: as_str()?, trim, history.add,
\* history.reset_view, Ok(result).
finalize(ed) ==
    IF IsSome(as_str(ed.line))
    THEN LET result == trim(Unwrap(as_str(ed.line)))
         IN  [history |-> reset_view(add(ed.history, result)), result |-> Ok(result)]
    ELSE [history |-> ed.history, result |-> Err("InvalidUtf8")]

\* A teardown that a failed inner block skips (a `?` on the block itself).
teardown_calls_skip_on_error(result) ==
    IF result.ok THEN <<Call("exit_raw_mode", <<>>)>> ELSE <<>>

\* The Terminal calls read_line makes after its inner block ended with result.
teardown_calls(result) == <<Call("exit_raw_mode", <<>>)>>

\* What read_line returns after the inner block ended with result and
\* exit_raw_mode failed (exitErr) or not: `terminal.exit_raw_mode()?; result`
\* in the blocking engine, `let _ = terminal.exit_raw_mode().await; result`
\* in the suspend-based one.
read_line_return(flv, result, exitErr) ==
    IF flv = "sync" /\ exitErr THEN Err("exit_raw_mode") ELSE result

\* ------------------------------------------------------------------ state
VARIABLES
    line,       \* the LineBuffer (LineEditor.line)
    history,    \* the History (LineEditor.history)
    lastOp,       \* the last operation performed: [op, arg, ret]
    committed,  \* driver's log: the lines that add was asked to commit, in order
    session,    \* driver's log of a scroll session: Some([stash, seen, downs])
    nAdds,      \* number of add calls made by the driver
    flavor,     \* "sync" (LineEditor) or "async" (AsyncLineEditor)
    pc,         \* "idle": no read_line call running; "loop": in its dispatch loop
    term,       \* the mock terminal's record of the current read_line call
    ret,        \* what the last read_line call returned, None while it runs
    nReads,     \* number of read_line calls made so far
    nKeys,      \* number of key events handled so far
    hist0,      \* entries and current_entry when read_line was called
    upSeen,     \* an Up event was handled in the current read_line call
    sessB,      \* Some(buffer bytes held when the open scroll session began)
    inserted,   \* driver's log: Some(chars inserted into an empty buffer, nothing else done)
    parser      \* a terminal backend reading key events from its input bytes

vars == <<line, history, lastOp, committed, session, nAdds, flavor, pc, term, ret,
          nReads, nKeys, hist0, upSeen, sessB, inserted, parser>>

\* vars with lastOp rendered as text: the values operations return are of
\* different kinds (bool, usize, Option), which only compare as text.
stepVars == <<line, history, ToString(lastOp), committed, session, nAdds, flavor,
              pc, term, ret, nReads, nKeys, hist0, upSeen, sessB, inserted,
              parser>>

histVars == <<committed, session, nAdds>>
engineVars == <<flavor, pc, term, ret, nReads, nKeys, hist0, upSeen, sessB>>

NoOp == [op |-> "none", arg |-> <<>>, ret |-> <<>>]
Term0 == [entered |-> FALSE, exits |-> 0, afterExit |-> FALSE, failed |-> FALSE,
          firstErr |-> ""]

\* KeyEvent, and Result<KeyEvent> as parse_key_event returns it, with the
\* number n of bytes it read.
KeyEvent(kind, c) == [kind |-> kind, c |-> c]
Key(kind) == KeyEvent(kind, 0)
Normal(c) == KeyEvent("Normal", c)
Parsed(event, n) == [ok |-> TRUE, ev |-> event, err |-> "", n |-> n]
ParseErr(e, n) == [ok |-> FALSE, ev |-> Key("none"), err |-> e, n |-> n]

\* The backend's variable, while no backend runs.
ParserIdle ==
    [backend |-> "none", keys |-> <<>>, off |-> 0, key |-> <<>>,
     fresh |-> FALSE, res |-> Parsed(Key("none"), 0)]

\* The engine's variables, while no engine runs.
EngineIdle ==
    /\ flavor = "sync"
    /\ pc = "idle"
    /\ term = Term0
    /\ ret = None
    /\ nReads = 0
    /\ nKeys = 0
    /\ hist0 = [entries |-> <<>>, current_entry |-> 0]
    /\ upSeen = FALSE
    /\ sessB = None

\* The drivers' logs, while no driver runs.
DriverIdle ==
    /\ inserted = Some(<<>>)
    /\ committed = <<>>
    /\ session = None
    /\ nAdds = 0

\* ------------------------------------------------------------------ LineBuffer alone
\* Bytes and characters the LineBuffer specification draws from:
\* 'a' (word), ' ' (whitespace), '+' (symbol), U+00E4 (two bytes: 195 164).
BufChars == {97, 32, 43, 228}
BufBytes == {97, 32, 43, 195, 164}

\* Every &str of at most n bytes over BufBytes.
Texts(bytes, n) ==
    {t \in UNION {[1..k -> bytes] : k \in 0..n} : from_utf8_ok(t)}

InitBuf ==
    /\ line = LineBuffer_new
    /\ history = History_new(1)
    /\ lastOp = NoOp
    /\ DriverIdle
    /\ EngineIdle
    /\ parser = ParserIdle

BufStep(op, arg, r) ==
    /\ line' = r.lb
    /\ lastOp' = [op |-> op, arg |-> arg, ret |-> r.ret]
    /\ inserted' = IF op = "insert_char" /\ IsSome(inserted)
                   THEN Some(Append(Unwrap(inserted), arg))
                   ELSE IF op = "clear" THEN Some(<<>>) ELSE None
    /\ UNCHANGED <<history, histVars, engineVars, parser>>

Buf_clear == BufStep("clear", <<>>, [lb |-> clear(line), ret |-> <<>>])

Buf_insert_char ==
    \E c \in BufChars :
        /\ Len(line.buffer) + Len(encode_utf8(c)) <= MaxBufLen
        /\ BufStep("insert_char", c, [lb |-> insert_char(line, c), ret |-> <<>>])

Buf_delete_before_cursor ==
    BufStep("delete_before_cursor", <<>>, delete_before_cursor(line))

Buf_delete_at_cursor == BufStep("delete_at_cursor", <<>>, delete_at_cursor(line))

Buf_move_cursor_left == BufStep("move_cursor_left", <<>>, move_cursor_left(line))

Buf_move_cursor_right == BufStep("move_cursor_right", <<>>, move_cursor_right(line))

Buf_move_cursor_to_start ==
    BufStep("move_cursor_to_start", <<>>, move_cursor_to_start(line))

Buf_move_cursor_to_end ==
    BufStep("move_cursor_to_end", <<>>, move_cursor_to_end(line))

Buf_move_cursor_word_left ==
    BufStep("move_cursor_word_left", <<>>, move_cursor_word_left(line))

Buf_move_cursor_word_right ==
    BufStep("move_cursor_word_right", <<>>, move_cursor_word_right(line))

Buf_delete_word_left == BufStep("delete_word_left", <<>>, delete_word_left(line))

Buf_delete_word_right == BufStep("delete_word_right", <<>>, delete_word_right(line))

Buf_load ==
    \E text \in Texts(BufBytes, MaxBufLen) :
        BufStep("load", text, [lb |-> load(line, text), ret |-> <<>>])

NextBuf ==
    \/ Buf_clear
    \/ Buf_insert_char
    \/ Buf_delete_before_cursor
    \/ Buf_delete_at_cursor
    \/ Buf_move_cursor_left
    \/ Buf_move_cursor_right
    \/ Buf_move_cursor_to_start
    \/ Buf_move_cursor_to_end
    \/ Buf_move_cursor_word_left
    \/ Buf_move_cursor_word_right
    \/ Buf_delete_word_left
    \/ Buf_delete_word_right
    \/ Buf_load

SpecBuf == InitBuf /\ [][NextBuf]_vars

\* C10: after any sequence of LineBuffer operations the cursor is a byte
\* offset into the buffer: 0 <= cursor_pos <= len.
C10_CursorInBounds ==
    /\ line.cursor_pos >= 0
    /\ line.cursor_pos <= Len(line.buffer)

\* C10 witness: a word delete has just removed bytes between two others,
\* leaving the cursor strictly inside a non-empty buffer.
C10_Witness ==
    /\ lastOp.op = "delete_word_left"
    /\ lastOp.ret > 0
    /\ line.cursor_pos > 0
    /\ line.cursor_pos < Len(line.buffer)

\* C11 (as claimed): after any sequence of insert_char, delete, word delete,
\* load and cursor move calls the buffer bytes are valid UTF-8, so as_str
\* succeeds.
C11_BufferValidUtf8 == IsSome(as_str(line))

\* The UTF-8 encodings of the characters cs, concatenated in order.
RECURSIVE Utf8Concat(_)
Utf8Concat(cs) ==
    IF cs = <<>> THEN <<>> ELSE encode_utf8(Head(cs)) \o Utf8Concat(Tail(cs))

\* C12: insert_char(c) with the cursor at p turns old into
\* old[0..p] ++ utf8(c) ++ old[p..] and sets the cursor to p + |utf8(c)|; and
\* after only insert_char calls on an empty buffer as_str is the
\* concatenation of the inserted characters and the cursor is its length.
C12_InsertChar ==
    [][lastOp'.op = "insert_char" =>
        LET c == lastOp'.arg
            p == line.cursor_pos
            old == line.buffer
        IN  /\ line'.buffer = SubSeq(old, 1, p) \o encode_utf8(c)
                                \o SubSeq(old, p + 1, Len(old))
            /\ line'.cursor_pos = p + Len(encode_utf8(c))
            /\ IsSome(inserted') =>
                 /\ as_str(line') = Some(Utf8Concat(Unwrap(inserted')))
                 /\ line'.cursor_pos = Len(Utf8Concat(Unwrap(inserted')))]_stepVars

\* C12 witness: 'a' and then U+00E4 were inserted into an empty buffer.
C12_Witness ==
    /\ lastOp.op = "insert_char"
    /\ inserted = Some(<<97, 228>>)
    /\ line = [buffer |-> <<97, 195, 164>>, cursor_pos |-> 3]

\* s without its i-th element (i counted from 1).
Without(s, i) == [k \in 1..(Len(s) - 1) |-> IF k < i THEN s[k] ELSE s[k + 1]]

ByteClass(b) ==
    IF b \in {32, 9} THEN "whitespace"
    ELSE IF is_word_char(b) THEN "word" ELSE "symbol"

\* The offset reached from pos by stepping left over bytes of class cls.
RECURSIVE RunLeft(_, _, _)
RunLeft(buffer, pos, cls) ==
    IF pos > 0 /\ ByteClass(buffer[pos]) = cls
    THEN RunLeft(buffer, pos - 1, cls) ELSE pos

\* The offset reached from pos by stepping right over bytes of class cls.
RECURSIVE RunRight(_, _, _)
RunRight(buffer, pos, cls) ==
    IF pos < Len(buffer) /\ ByteClass(buffer[pos + 1]) = cls
    THEN RunRight(buffer, pos + 1, cls) ELSE pos

\* Skip the whitespace before pos, then a maximal run of one class.
ClassWordLeft(buffer, pos) ==
    LET q == RunLeft(buffer, pos, "whitespace")
    IN  IF q = 0 THEN 0 ELSE RunLeft(buffer, q, ByteClass(buffer[q]))

\* Consume the run of the class at pos, then skip whitespace.
ClassWordRight(buffer, pos) ==
    IF pos >= Len(buffer) THEN Len(buffer)
    ELSE LET cls == ByteClass(buffer[pos + 1])
             q == IF cls = "whitespace" THEN pos ELSE RunRight(buffer, pos, cls)
         IN  RunRight(buffer, q, "whitespace")

\* C14 (as claimed): move_cursor_word_left skips the whitespace before the
\* cursor and then a maximal run of one class (word or symbol), a symbol run
\* being a unit of its own; delete_word_left removes exactly that span.
C14_WordLeftByClass ==
    [][/\ lastOp'.op = "move_cursor_word_left" =>
            /\ line'.cursor_pos = ClassWordLeft(line.buffer, line.cursor_pos)
            /\ line'.buffer = line.buffer
       /\ lastOp'.op = "delete_word_left" =>
            LET t == ClassWordLeft(line.buffer, line.cursor_pos)
            IN  /\ line'.cursor_pos = t
                /\ line'.buffer =
                     SubSeq(line.buffer, 1, t)
                       \o SubSeq(line.buffer, line.cursor_pos + 1,
                                 Len(line.buffer))]_stepVars

\* C15 (as claimed): move_cursor_word_right consumes the maximal run of the
\* class found at the cursor and then skips whitespace only, stopping at the
\* start of the next word or symbol run; delete_word_right removes that span.
C15_WordRightByClass ==
    [][/\ lastOp'.op = "move_cursor_word_right" =>
            /\ line'.cursor_pos = ClassWordRight(line.buffer, line.cursor_pos)
            /\ line'.buffer = line.buffer
       /\ lastOp'.op = "delete_word_right" =>
            LET t == ClassWordRight(line.buffer, line.cursor_pos)
            IN  /\ line'.cursor_pos = line.cursor_pos
                /\ line'.buffer =
                     SubSeq(line.buffer, 1, line.cursor_pos)
                       \o SubSeq(line.buffer, t + 1, Len(line.buffer))]_stepVars

\* A buffer of alphanumeric words separated by single spaces.
SingleSpaced(buffer) ==
    /\ \A i \in 1..Len(buffer) :
          buffer[i] = 32 \/ (is_word_char(buffer[i]) /\ buffer[i] # 95)
    /\ buffer # <<>> => buffer[1] # 32 /\ buffer[Len(buffer)] # 32
    /\ \A i \in 1..(Len(buffer) - 1) : ~(buffer[i] = 32 /\ buffer[i + 1] = 32)

\* The offsets at which a word of the buffer starts.
WordStarts(buffer) ==
    {s \in 0..(Len(buffer) - 1) :
        buffer[s + 1] # 32 /\ (s = 0 \/ buffer[s] = 32)}

\* C16: in a buffer of alphanumeric words separated by single spaces,
\* move_cursor_word_left moves to the start of the word containing or
\* preceding the cursor and move_cursor_word_right to the start of the next
\* word or to the end, each returning the number of bytes moved.
C16_WordNavigation ==
    [][SingleSpaced(line.buffer) =>
        LET p == line.cursor_pos
            before == {s \in WordStarts(line.buffer) : s < p}
            after == {s \in WordStarts(line.buffer) : s > p}
        IN  /\ lastOp'.op = "move_cursor_word_left" =>
                 /\ line'.buffer = line.buffer
                 /\ line'.cursor_pos =
                      IF before = {} THEN 0
                      ELSE CHOOSE s \in before : \A t \in before : t <= s
                 /\ lastOp'.ret = p - line'.cursor_pos
            /\ lastOp'.op = "move_cursor_word_right" =>
                 /\ line'.buffer = line.buffer
                 /\ line'.cursor_pos =
                      IF after = {} THEN Len(line.buffer)
                      ELSE CHOOSE s \in after : \A t \in after : s <= t
                 /\ lastOp'.ret = line'.cursor_pos - p]_stepVars

\* C16 witness: on "a a", word-left has just moved the cursor from the end
\* over the second word to offset 2.
C16_Witness ==
    /\ lastOp.op = "move_cursor_word_left"
    /\ line = [buffer |-> <<97, 32, 97>>, cursor_pos |-> 2]
    /\ lastOp.ret = 1

\* Where the character starting at byte offset i (counted from 0) ends.
CharEnd(buffer, i) == i + Utf8Width(buffer, i + 1)

\* The byte offsets of a valid buffer at which a character starts, and its end.
CharBoundaries(buffer) ==
    {i \in 0..Len(buffer) :
        i = Len(buffer) \/ ~IsCont(buffer[i + 1])}

\* C28 (as claimed): in a valid UTF-8 buffer with the cursor on a character
\* boundary, insert_char, delete_before_cursor and delete_at_cursor change
\* the buffer by the bytes of one whole character and leave the cursor on a
\* character boundary of a valid buffer.
C28_WholeCharacters ==
    [][(/\ lastOp'.op \in {"insert_char", "delete_before_cursor",
                           "delete_at_cursor"}
        /\ from_utf8_ok(line.buffer)
        /\ line.cursor_pos \in CharBoundaries(line.buffer)
        /\ line'.buffer # line.buffer) =>
          /\ from_utf8_ok(line'.buffer)
          /\ line'.cursor_pos \in CharBoundaries(line'.buffer)
          /\ lastOp'.op = "delete_at_cursor" =>
               Len(line.buffer) - Len(line'.buffer) =
                 CharEnd(line.buffer, line.cursor_pos) - line.cursor_pos
          /\ lastOp'.op = "delete_before_cursor" =>
               Len(line.buffer) - Len(line'.buffer) =
                 line.cursor_pos - line'.cursor_pos]_stepVars

\* C29: delete_word_left (delete_word_right) removes exactly the bytes
\* move_cursor_word_left (move_cursor_word_right) would traverse from the
\* same state and returns their number; the other bytes keep content and
\* order; the cursor ends at the start of the removed span.
C29_DeleteWordSpan ==
    [][/\ lastOp'.op = "delete_word_left" =>
            LET m == move_cursor_word_left(line)
                t == m.lb.cursor_pos
            IN  /\ lastOp'.ret = m.ret
                /\ lastOp'.ret = line.cursor_pos - t
                /\ line'.cursor_pos = t
                /\ line'.buffer =
                     SubSeq(line.buffer, 1, t)
                       \o SubSeq(line.buffer, line.cursor_pos + 1,
                                 Len(line.buffer))
       /\ lastOp'.op = "delete_word_right" =>
            LET m == move_cursor_word_right(line)
                t == m.lb.cursor_pos
            IN  /\ lastOp'.ret = m.ret
                /\ lastOp'.ret = t - line.cursor_pos
                /\ line'.cursor_pos = line.cursor_pos
                /\ line'.buffer =
                     SubSeq(line.buffer, 1, line.cursor_pos)
                       \o SubSeq(line.buffer, t + 1, Len(line.buffer))]_stepVars

\* C29 witness: on "a a" with the cursor at the end, delete_word_left has
\* just removed the second word, one byte, leaving "a ".
C29_Witness ==
    /\ lastOp.op = "delete_word_left"
    /\ lastOp.ret = 1
    /\ line = [buffer |-> <<97, 32>>, cursor_pos |-> 2]

\* ------------------------------------------------------------------ History alone
\* Lines the driver passes to add: "", " ", "a", " a ", "b", "c".
AddLines == {<<>>, <<32>>, <<97>>, <<32, 97, 32>>, <<98>>, <<99>>}
\* Lines the driver passes to previous as the line being edited: "", "x", " x".
CurLines == {<<>>, <<120>>, <<32, 120>>}

InitHist ==
    /\ line = LineBuffer_new
    /\ \E capacity \in 1..MaxCap : history = History_new(capacity)
    /\ lastOp = NoOp
    /\ DriverIdle
    /\ EngineIdle
    /\ parser = ParserIdle

\* The claim's notion of a commit: non-empty after trim and different from
\* the commit before it.
IsCommit(log, l) ==
    /\ trim(l) # <<>>
    /\ (log = <<>> \/ log[Len(log)] # trim(l))

Hist_add ==
    \E l \in AddLines :
        /\ nAdds < MaxAdds
        /\ nAdds' = nAdds + 1
        /\ history' = add(history, l)
        /\ lastOp' = [op |-> "add", arg |-> l, ret |-> <<>>]
        /\ committed' = IF IsCommit(committed, l)
                        THEN Append(committed, trim(l)) ELSE committed
        /\ session' = IF history' = history THEN session ELSE None
        /\ UNCHANGED <<line, inserted, parser, engineVars>>

\* A scroll session is followed while it is a run of successful previous
\* calls and then a run of next_entry calls; seen holds what previous returned.
Hist_previous ==
    \E cur \in CurLines :
        LET r == previous(history, cur)
        IN  /\ history' = r.h
            /\ lastOp' = [op |-> "previous", arg |-> cur, ret |-> r.ret]
            /\ session' =
                 IF r.ret = None THEN session
                 ELSE IF history.viewing_entry = None
                 THEN Some([stash |-> cur, seen |-> <<Unwrap(r.ret)>>, downs |-> 0])
                 ELSE IF IsSome(session) /\ Unwrap(session).downs = 0
                 THEN Some([Unwrap(session) EXCEPT
                              !.seen = Append(@, Unwrap(r.ret))])
                 ELSE None
            /\ UNCHANGED <<line, inserted, parser, committed, nAdds, engineVars>>

Hist_next_entry ==
    LET r == next_entry(history)
    IN  /\ history' = r.h
        /\ lastOp' = [op |-> "next_entry", arg |-> <<>>, ret |-> r.ret]
        /\ session' = IF IsSome(session)
                         /\ Unwrap(session).downs < Len(Unwrap(session).seen)
                      THEN Some([Unwrap(session) EXCEPT !.downs = @ + 1])
                      ELSE session
        /\ UNCHANGED <<line, inserted, parser, committed, nAdds, engineVars>>

Hist_reset_view ==
    /\ history' = reset_view(history)
    /\ lastOp' = [op |-> "reset_view", arg |-> <<>>, ret |-> <<>>]
    /\ session' = None
    /\ UNCHANGED <<line, inserted, parser, committed, nAdds, engineVars>>

NextHist ==
    \/ Hist_add
    \/ Hist_previous
    \/ Hist_next_entry
    \/ Hist_reset_view

SpecHist == InitHist /\ [][NextHist]_vars

\* What repeated previous calls return from h until the first None.
RECURSIVE PreviousWalk(_)
PreviousWalk(h) ==
    LET r == previous(h, <<>>)
    IN  IF r.ret = None THEN <<>>
        ELSE <<Unwrap(r.ret)>> \o PreviousWalk(r.h)

\* The last n elements of s, newest first.
NewestFirst(s, n) ==
    LET k == IF n < Len(s) THEN n ELSE Len(s)
    IN  [i \in 1..k |-> s[Len(s) + 1 - i]]

\* C4 (as claimed): with no active view, repeated previous calls return
\* exactly the min(k, capacity) most recent commits, newest first, then None.
C4_PreviousWalksCommits ==
    history.viewing_entry = None =>
        PreviousWalk(history) = NewestFirst(committed, history.capacity)

\* The most recently committed entry of h, None if there is none.
MostRecent(h) ==
    IF h.entries = <<>> THEN None ELSE Some(h.entries[h.current_entry + 1])

\* C5 (as claimed): in every History state add(line) stores nothing when
\* trim(line) is the most recently committed entry, and makes trim(line) the
\* most recent entry when it is non-empty and differs from it.
C5_AddFiltersDuplicates ==
    [][Hist_add =>
        LET t == trim(lastOp'.arg)
        IN  /\ (MostRecent(history) = Some(t) =>
                  /\ history'.entries = history.entries
                  /\ history'.current_entry = history.current_entry)
            /\ (t # <<>> /\ MostRecent(history) # Some(t) =>
                  MostRecent(history') = Some(t))]_vars

\* C6: after m successful previous calls (the first passing the line s), the
\* j-th of the next_entry calls that follow returns the entry seen by the
\* (m - j)-th previous call for j < m, and Some(s) for j = m.
C6_ScrollRoundTrip ==
    [][(Hist_next_entry /\ IsSome(session)
          /\ Unwrap(session).downs < Len(Unwrap(session).seen)) =>
        LET ss == Unwrap(session)
            m == Len(ss.seen)
            j == ss.downs + 1
        IN  lastOp'.ret = IF j < m THEN Some(ss.seen[m - j]) ELSE Some(ss.stash)]_vars

\* C6 witness: two previous calls on a wrapped ring, then two next_entry
\* calls; the second has just returned the stashed line " x".
C6_Witness ==
    /\ lastOp.op = "next_entry"
    /\ IsSome(session)
    /\ Len(Unwrap(session).seen) = 2
    /\ Unwrap(session).downs = 2
    /\ Len(committed) > history.capacity
    /\ Unwrap(session).stash = <<32, 120>>
    /\ lastOp.ret = Some(<<32, 120>>)

\* C17: add(line) with an empty or whitespace-only line leaves entries and
\* the write cursor unchanged, and previous returns afterwards what it would
\* have returned without the call.
C17_AddEmptyIsNoOp ==
    [][(lastOp'.op = "add" /\ trim(lastOp'.arg) = <<>>) =>
        /\ history'.entries = history.entries
        /\ history'.current_entry = history.current_entry
        /\ \A cur \in CurLines :
              previous(history', cur).ret = previous(history, cur).ret
        /\ PreviousWalk(history') = PreviousWalk(history)]_stepVars

\* C17 witness: add(" ") has just been called on a history holding two
\* entries, with a view active on the older one.
C17_Witness ==
    /\ lastOp.op = "add"
    /\ lastOp.arg = <<32>>
    /\ Len(history.entries) = 2
    /\ history.viewing_entry = Some(0)

\* C18: in a followed scroll session of m previous calls, the m-th
\* next_entry call clears the view and returns the stashed line, and every
\* next_entry call after it returns None, until previous is called again.
C18_RestoreExactlyOnce ==
    [][(lastOp'.op = "next_entry" /\ IsSome(session)) =>
        LET ss == Unwrap(session)
        IN  /\ ss.downs = Len(ss.seen) - 1 =>
                 /\ lastOp'.ret = Some(ss.stash)
                 /\ history'.viewing_entry = None
            /\ ss.downs = Len(ss.seen) =>
                 /\ lastOp'.ret = None
                 /\ history'.viewing_entry = None]_stepVars

\* C18 witness: after a session of two previous and two next_entry calls, a
\* third next_entry call has just returned None.
C18_Witness ==
    /\ lastOp.op = "next_entry"
    /\ lastOp.ret = None
    /\ IsSome(session)
    /\ Len(Unwrap(session).seen) = 2
    /\ Unwrap(session).downs = 2
    /\ history.viewing_entry = None

\* C19: next_entry called while no view is active returns None and changes
\* nothing of the History, however many entries are stored.
C19_NextWithoutView ==
    [][(lastOp'.op = "next_entry" /\ history.viewing_entry = None) =>
        /\ lastOp'.ret = None
        /\ history' = history]_stepVars

\* C19 witness: next_entry has just returned None on a full history of two
\* entries whose view was reset while a saved line was held.
C19_Witness ==
    /\ lastOp.op = "next_entry"
    /\ lastOp.ret = None
    /\ session = None
    /\ Len(history.entries) = 2
    /\ IsSome(history.saved_line)

\* The slot holding the oldest entry still stored.
Oldest(h) ==
    IF Len(h.entries) < h.capacity THEN 0
    ELSE (h.current_entry + 1) % h.capacity

\* C20: previous on an empty history, or with the view on the oldest stored
\* entry, returns None and changes nothing; a step back from an active view
\* never lands on the newest entry, and a whole backward walk returns each
\* stored entry once, from the write cursor back to the slot after it.
C20_PreviousStopsAtOldest ==
    [][lastOp'.op = "previous" =>
        /\ (history.entries = <<>>
              \/ history.viewing_entry = Some(Oldest(history))) =>
             /\ lastOp'.ret = None
             /\ history' = history
        /\ (IsSome(history.viewing_entry) /\ lastOp'.ret # None) =>
             /\ history'.viewing_entry # Some(history.current_entry)
             /\ lastOp'.ret =
                  Some(history.entries[Unwrap(history'.viewing_entry) + 1])
        /\ history.viewing_entry = None =>
             LET n == Len(history.entries)
             IN  PreviousWalk(history) =
                   [i \in 1..n |->
                      history.entries[((history.current_entry + n - (i - 1)) % n) + 1]]]_stepVars

\* C20 witness: in a wrapped ring of capacity 2, previous has just returned
\* None with the view on the slot after the write cursor.
C20_Witness ==
    /\ lastOp.op = "previous"
    /\ lastOp.ret = None
    /\ history.capacity = 2
    /\ Len(committed) > 2
    /\ history.viewing_entry = Some(Oldest(history))
    /\ Oldest(history) # history.current_entry

\* C21: in every reachable History state entries.len() <= capacity.
C21_EntriesWithinCapacity == Len(history.entries) <= history.capacity

\* C21 witness: a ring of capacity 2 that is full and has been overwritten.
C21_Witness ==
    /\ lastOp.op = "add"
    /\ history.capacity = 2
    /\ Len(history.entries) = 2
    /\ Len(committed) > 2

\* C22 (as claimed): after any add call and after any reset_view call the
\* view is None and saved_line is None.
C22_AddAndResetClearView ==
    lastOp.op \in {"add", "reset_view"} =>
        /\ history.viewing_entry = None
        /\ history.saved_line = None

Slots(h) == {h.entries[i] : i \in 1..Len(h.entries)}

\* C35: a previous call made while no view is active, on a non-empty
\* history, stashes its current_line argument into saved_line and returns
\* the most recent entry; a previous call made while a view is active
\* leaves saved_line as it was, whatever its argument.
C35_PreviousStashesOnce ==
    [][lastOp'.op = "previous" =>
         IF history.viewing_entry = None
         THEN history.entries # <<>> =>
                /\ history'.saved_line = Some(lastOp'.arg)
                /\ history'.viewing_entry = Some(history.current_entry)
                /\ lastOp'.ret = MostRecent(history)
         ELSE history'.saved_line = history.saved_line]_stepVars

\* C35 witness: a previous call with the argument "x" returned an entry
\* while the line stashed by the call that opened the view, " x", is still
\* the saved line.
C35_Witness ==
    /\ lastOp.op = "previous"
    /\ lastOp.arg = <<120>>
    /\ lastOp.ret # None
    /\ history.saved_line = Some(<<32, 120>>)

\* C38: in every reachable History state (capacity >= 1) the write cursor
\* is below entries.len() when entries is non-empty, and the view cursor,
\* when Some(i), has i < entries.len().
C38_CursorsInBounds ==
    /\ history.entries # <<>> => history.current_entry < Len(history.entries)
    /\ IsSome(history.viewing_entry) =>
         Unwrap(history.viewing_entry) < Len(history.entries)

\* C38 witness: an add call that stored nothing while a view was active on
\* a full ring that has wrapped.
C38_Witness ==
    /\ lastOp.op = "add"
    /\ IsSome(history.viewing_entry)
    /\ history.capacity = 2
    /\ Len(history.entries) = 2
    /\ Len(committed) > 2

\* C39 (as claimed): previous, next_entry and reset_view leave entries and
\* the write cursor unchanged, and every line previous or next_entry
\* returns is a committed line that occupies a slot.
C39_NavigationReturnsEntries ==
    [][lastOp'.op \in {"previous", "next_entry", "reset_view"} =>
         /\ history'.entries = history.entries
         /\ history'.current_entry = history.current_entry
         /\ (lastOp'.op # "reset_view" /\ IsSome(lastOp'.ret)) =>
               Unwrap(lastOp'.ret) \in Slots(history)]_stepVars

\* C39 (amended): previous, next_entry and reset_view leave entries and the
\* write cursor unchanged; every line previous returns occupies a slot, and
\* every line next_entry returns occupies a slot or is the saved line,
\* handed back when it steps past the newest entry.
C39_NavigationFrame ==
    [][lastOp'.op \in {"previous", "next_entry", "reset_view"} =>
         /\ history'.entries = history.entries
         /\ history'.current_entry = history.current_entry
         /\ (lastOp'.op = "previous" /\ IsSome(lastOp'.ret)) =>
               Unwrap(lastOp'.ret) \in Slots(history)
         /\ (lastOp'.op = "next_entry" /\ IsSome(lastOp'.ret)) =>
               \/ /\ IsSome(history'.viewing_entry)
                  /\ Unwrap(lastOp'.ret) \in Slots(history)
               \/ /\ history'.viewing_entry = None
                  /\ lastOp'.ret = history.saved_line]_stepVars

\* C39 witness: on a full ring that has wrapped, next_entry stepped from an
\* older entry to a newer one and returned it.
C39_Witness ==
    /\ lastOp.op = "next_entry"
    /\ IsSome(lastOp.ret)
    /\ IsSome(history.viewing_entry)
    /\ history.capacity = 2
    /\ Len(committed) > 2
    /\ Unwrap(lastOp.ret) = history.entries[Unwrap(history.viewing_entry) + 1]


\* ------------------------------------------------------------------ History of any capacity
\* History::new takes any usize, 0 included. With capacity 0 an add that
\* gets past its two filters takes the else branch (0 < 0 is false) and
\* evaluates (self.current_entry + 1) % self.capacity: a remainder by zero,
\* which panics before anything is assigned.
add_panics(h, l) ==
    /\ trim(l) # <<>>
    /\ ~(IsSome(last(h.entries)) /\ Unwrap(last(h.entries)) = trim(l))
    /\ ~(Len(h.entries) < h.capacity)
    /\ h.capacity = 0

Panicked == lastOp.op = "add panicked"

InitCap ==
    /\ line = LineBuffer_new
    /\ \E capacity \in 0..MaxCap : history = History_new(capacity)
    /\ lastOp = NoOp
    /\ DriverIdle
    /\ EngineIdle
    /\ parser = ParserIdle

Cap_add ==
    \E l \in AddLines :
        /\ ~Panicked
        /\ nAdds < MaxAdds
        /\ nAdds' = nAdds + 1
        /\ IF add_panics(history, l)
           THEN /\ history' = history
                /\ lastOp' = [op |-> "add panicked", arg |-> l, ret |-> <<>>]
                /\ UNCHANGED <<committed, session>>
           ELSE /\ history' = add(history, l)
                /\ lastOp' = [op |-> "add", arg |-> l, ret |-> <<>>]
                /\ committed' = IF IsCommit(committed, l)
                                THEN Append(committed, trim(l)) ELSE committed
                /\ session' = IF history' = history THEN session ELSE None
        /\ UNCHANGED <<line, inserted, parser, engineVars>>

\* A panic ends the program: no operation follows it.
Cap_previous == ~Panicked /\ Hist_previous
Cap_next_entry == ~Panicked /\ Hist_next_entry
Cap_reset_view == ~Panicked /\ Hist_reset_view

NextCap ==
    \/ Cap_add
    \/ Cap_previous
    \/ Cap_next_entry
    \/ Cap_reset_view

SpecCap == InitCap /\ [][NextCap]_vars

\* C40 (as claimed): for every capacity History::new accepts, 0 included,
\* no add call faults, and entries.len() <= capacity holds after it.
C40_AddNeverFaults ==
    /\ ~Panicked
    /\ Len(history.entries) <= history.capacity


\* ------------------------------------------------------------------ read_line
\* Characters the Normal events carry: 'a', ' ', U+00E4 (two bytes).
KeyChars == {97, 32, 228}

\* The events parse_key_event hands to handle_key_event (Enter ends the loop).
KeyEvents ==
    {[kind |-> "Normal", c |-> c] : c \in KeyChars}
      \cup {[kind |-> k, c |-> 0] :
              k \in {"Left", "Right", "Up", "Down", "Home", "End", "Backspace",
                     "Delete", "CtrlLeft", "CtrlRight", "AltBackspace",
                     "CtrlDelete"}}

\* Whether the event changes the text (it then resets the history view).
IsEdit(event) ==
    event.kind \in {"Normal", "Backspace", "Delete", "AltBackspace", "CtrlDelete"}

\* Errors parse_key_event returns for Ctrl-D and Ctrl-C.
ParseErrors == {"Eof", "Interrupted"}

\* The error a failing Terminal call returns.
IoError(call) ==
    IF call.op \in {"enter_raw_mode", "exit_raw_mode"} THEN call.op ELSE "output"

\* The mock terminal records the calls made in a read_line call: how many
\* were exit_raw_mode (exits), whether any other call followed one
\* (afterExit), whether a call failed, and the first error raised. err is the
\* error the last call of calls returned, "" if it succeeded.
Observe(t, calls, err) ==
    [t EXCEPT
       !.exits = @ + Cardinality({i \in 1..Len(calls) :
                                    calls[i].op = "exit_raw_mode"}),
       !.afterExit = @ \/ \E j \in 1..Len(calls) :
                              /\ calls[j].op # "exit_raw_mode"
                              /\ \/ t.exits > 0
                                 \/ \E i \in 1..(j - 1) :
                                       calls[i].op = "exit_raw_mode",
       !.failed = @ \/ err # "",
       !.firstErr = IF @ = "" THEN err ELSE @]

\* The first error of the call, when it is not a Terminal call's (as_str).
NoteError(t, result) ==
    IF ~result.ok /\ t.firstErr = "" THEN [t EXCEPT !.firstErr = result.err] ELSE t

InitEngine ==
    /\ line = LineBuffer_new
    /\ \E capacity \in 1..MaxCap : history = History_new(capacity)
    /\ lastOp = NoOp
    /\ DriverIdle
    /\ parser = ParserIdle
    /\ flavor \in {"sync", "async"}
    /\ pc = "idle"
    /\ term = Term0
    /\ ret = None
    /\ nReads = 0
    /\ nKeys = 0
    /\ hist0 = [entries |-> <<>>, current_entry |-> 0]
    /\ upSeen = FALSE
    /\ sessB = None

\* read_line up to its loop: self.line.clear(); terminal.enter_raw_mode()?
ReadLineCall ==
    /\ pc = "idle"
    /\ nReads < MaxReads
    /\ nReads' = nReads + 1
    /\ \E ok \in BOOLEAN :
        /\ line' = clear(line)
        /\ term' = [Observe(Term0, <<Call("enter_raw_mode", <<>>)>>,
                            IF ok THEN "" ELSE "enter_raw_mode")
                      EXCEPT !.entered = ok]
        /\ pc' = IF ok THEN "loop" ELSE "idle"
        /\ ret' = IF ok THEN None ELSE Some(Err("enter_raw_mode"))
    /\ hist0' = [entries |-> history.entries,
                 current_entry |-> history.current_entry]
    /\ upSeen' = FALSE
    /\ sessB' = None
    /\ UNCHANGED <<history, flavor, nKeys, lastOp, inserted, parser, histVars>>

\* The inner block ended with result after the Terminal calls made, the last
\* of which returned err; read_line exits raw mode and returns.
EndCall(result, made, err, exitFails) ==
    LET t1 == NoteError(Observe(term, made, err), result)
        tc == teardown_calls(result)
        xerr == IF exitFails /\ tc # <<>> THEN IoError(tc[Len(tc)]) ELSE ""
    IN  /\ term' = Observe(t1, tc, xerr)
        /\ ret' = Some(read_line_return(flavor, result, xerr # ""))
        /\ pc' = "idle"
        /\ upSeen' = FALSE
        /\ sessB' = None

\* parse_key_event returns an error: the loop ends with it.
ParseKeyError ==
    /\ pc = "loop"
    /\ \E e \in ParseErrors, exitFails \in BOOLEAN :
        EndCall(Err(e), <<Call("parse_key_event", <<>>)>>, e, exitFails)
    /\ UNCHANGED <<line, history, flavor, nReads, nKeys, hist0, lastOp, inserted, parser, histVars>>

\* One turn of the loop: parse_key_event returns the key event (not Enter)
\* and handle_key_event handles it; f > 0 is the Terminal call of the
\* handler that fails, f = 0 when none does.
Dispatch(event, f) ==
    LET r == handle_key_event([line |-> line, history |-> history], event)
        parse == <<Call("parse_key_event", <<>>)>>
    IN  /\ pc = "loop"
        /\ nKeys < MaxKeys
        /\ nKeys' = nKeys + 1
        /\ f <= Len(r.calls)
        /\ event.kind = "Normal" =>
             Len(line.buffer) + Len(encode_utf8(event.c)) <= MaxLineLen
        /\ history' = r.history
        /\ IF f = 0
           THEN /\ line' = r.line
                /\ term' = Observe(term, parse \o r.calls, "")
                /\ upSeen' = (upSeen \/ event.kind = "Up")
                /\ sessB' =
                     CASE IsEdit(event) -> None
                       [] event.kind = "Up" /\ history.viewing_entry = None
                            /\ IsSome(r.hret) -> Some(line.buffer)
                       [] event.kind = "Down" /\ r.history.viewing_entry = None
                            -> None
                       [] OTHER -> sessB
                /\ UNCHANGED <<pc, ret>>
           ELSE /\ line' = IF f <= r.pre THEN line ELSE r.line
                /\ \E exitFails \in BOOLEAN :
                     EndCall(Err(IoError(r.calls[f])),
                             parse \o SubSeq(r.calls, 1, f),
                             IoError(r.calls[f]), exitFails)
        /\ UNCHANGED <<flavor, nReads, hist0, lastOp, inserted, parser, histVars>>

\* The most Terminal calls one handle_key_event makes on a line of
\* MaxLineLen bytes: cursor_left per byte, clear_eol, write, flush.
MaxCalls == MaxLineLen + 3

DispatchKey == \E event \in KeyEvents, f \in 0..MaxCalls : Dispatch(event, f)

\* parse_key_event returns Enter: the loop breaks, read_line writes the
\* terminator, flushes, reads the line out, commits it and returns.
EnterKey ==
    /\ pc = "loop"
    /\ \E f \in 0..2, exitFails \in BOOLEAN :
        LET calls == <<Call("parse_key_event", <<>>)>> \o enter_calls(flavor)
            fin == finalize([line |-> line, history |-> history])
        IN  IF f = 0
            THEN /\ history' = fin.history
                 /\ EndCall(fin.result, calls, "", exitFails)
            ELSE /\ history' = history
                 /\ EndCall(Err(IoError(calls[f + 1])), SubSeq(calls, 1, f + 1),
                            IoError(calls[f + 1]), exitFails)
    /\ UNCHANGED <<line, flavor, nReads, nKeys, hist0, lastOp, inserted, parser, histVars>>

Next ==
    \/ ReadLineCall
    \/ ParseKeyError
    \/ DispatchKey
    \/ EnterKey

Spec == InitEngine /\ [][Next]_vars

\* ------------------------------------------------------------------ engine claims
Returned == pc = "idle" /\ IsSome(ret)

\* C1 (as claimed): when every Terminal call of a read_line call succeeds,
\* the call returns Ok(the Line Buffer content at Enter, trimmed), whatever
\* the key events before Enter were.
C1_ReturnsTrimmedLine ==
    (Returned /\ term.entered /\ ~term.failed) =>
        Unwrap(ret) = Ok(trim(line.buffer))

\* C2: in a read_line call whose enter_raw_mode succeeded, exit_raw_mode is
\* not called while the loop runs, and when the call has returned (by Enter
\* or by an error of the loop or of finalize) it was called exactly once and
\* no other Terminal call followed it.
C2_ExitRawModeOnceAndLast ==
    /\ pc = "loop" => term.exits = 0
    /\ (Returned /\ term.entered) => (term.exits = 1 /\ ~term.afterExit)

\* C2 witness: a call that entered raw mode and ended in finalize, on the
\* UTF-8 read-out of the buffer, after the terminator write and the flush.
C2_Witness ==
    /\ Returned
    /\ term.entered
    /\ term.exits = 1
    /\ ~term.failed
    /\ Unwrap(ret) = Err("InvalidUtf8")

\* C3 (as claimed, for the blocking engine once raw mode was entered): when
\* some call failed, read_line returns the first error raised, after
\* exit_raw_mode has run; when none failed it returns the trimmed line.
C3_FirstErrorReturned ==
    (Returned /\ flavor = "sync" /\ term.entered) =>
        IF term.firstErr # ""
        THEN Unwrap(ret) = Err(term.firstErr) /\ term.exits >= 1
        ELSE Unwrap(ret) = Ok(trim(line.buffer))

UpEvent == [kind |-> "Up", c |-> 0]
DownEvent == [kind |-> "Down", c |-> 0]

\* C7 (as claimed): in every read_line call a Down event with no Up event
\* before it in that call is a no-op (next_entry returns None, buffer and
\* cursor unchanged), and the first Up event of the call loads the most
\* recent entry.
C7_DownWithoutUpIsNoOp ==
    [][/\ ((\E f \in 0..MaxCalls : Dispatch(DownEvent, f)) /\ ~upSeen) =>
            (next_entry(history).ret = None /\ line' = line)
       /\ (Dispatch(UpEvent, 0) /\ ~upSeen /\ history.entries # <<>>) =>
            line'.buffer = Unwrap(MostRecent(history))]_vars

\* C8 (as claimed): when an Up event opens a scroll session while the buffer
\* holds b, the Down event that steps past the newest entry (no editing key
\* in between) leaves the buffer equal to b, whatever bytes b is.
C8_EngineRestore ==
    [][(/\ Dispatch(DownEvent, 0)
        /\ IsSome(sessB)
        /\ history.viewing_entry # None
        /\ history'.viewing_entry = None) =>
          line'.buffer = Unwrap(sessB)]_vars

\* C9 (as claimed): whenever read_line returns Err, the History entries and
\* the write cursor are what they were when it was called.
C9_ErrLeavesHistory ==
    (Returned /\ ~Unwrap(ret).ok) =>
        /\ history.entries = hist0.entries
        /\ history.current_entry = hist0.current_entry

\* C23 (as claimed): no error is swallowed: when a Terminal call of a
\* read_line call failed (exit_raw_mode included) or the read-out of the
\* buffer met invalid UTF-8, the call returns Err.
C23_NoErrorSwallowed ==
    (Returned /\ term.firstErr # "") => ~Unwrap(ret).ok

\* C24 (as claimed): the blocking and the suspend-based engine agree: from
\* the same editor state in the loop they write the same terminator on
\* Enter and, for the same result of the inner block (the line read out, an
\* output error, an error of parse_key_event) and the same outcome of
\* exit_raw_mode, return the same result.
C24_EnginesAgree ==
    pc = "loop" =>
        LET fin == finalize([line |-> line, history |-> history])
        IN  /\ Terminator("sync") = Terminator("async")
            /\ \A result \in {fin.result, Err("output")}
                             \cup {Err(e) : e \in ParseErrors},
                  exitErr \in BOOLEAN :
                    read_line_return("sync", result, exitErr)
                      = read_line_return("async", result, exitErr)

NavKinds == {"Left", "Right", "Home", "End", "CtrlLeft", "CtrlRight"}
CountOp(calls, op) == Cardinality({i \in 1..Len(calls) : calls[i].op = op})
Monus(a, b) == IF a > b THEN a - b ELSE 0

\* C25: a navigation event (Left, Right, Home, End, CtrlLeft, CtrlRight)
\* whose Terminal calls succeed makes as many cursor_left calls as byte
\* positions the cursor moved left and as many cursor_right calls as it
\* moved right (none when it did not move), no other call but the flush,
\* and leaves the buffer bytes unchanged.
C25_NavigationCallsMatchMove ==
    [][\A k \in NavKinds :
         LET event == [kind |-> k, c |-> 0]
             calls == handle_key_event([line |-> line, history |-> history],
                                       event).calls
         IN  (pc' = "loop" /\ nKeys' = nKeys + 1 /\ Dispatch(event, 0)) =>
               /\ line'.buffer = line.buffer
               /\ CountOp(calls, "cursor_left")
                    = Monus(line.cursor_pos, line'.cursor_pos)
               /\ CountOp(calls, "cursor_right")
                    = Monus(line'.cursor_pos, line.cursor_pos)
               /\ \A i \in 1..Len(calls) :
                    calls[i].op \in {"cursor_left", "cursor_right", "flush"}]_vars

\* C25 witness: in the first read_line call, after two characters were
\* typed, the third key (Home or CtrlLeft) moved the cursor two bytes left.
C25_Witness ==
    /\ pc = "loop"
    /\ nReads = 1
    /\ nKeys = 3
    /\ line = [buffer |-> <<97, 97>>, cursor_pos |-> 0]

\* C30: an editing event (Normal, Backspace, Delete, AltBackspace,
\* CtrlDelete) leaves no history view active, also when it deletes nothing
\* and when one of its Terminal calls fails; a navigation event leaves the
\* history view and the saved line as they were.
C30_EditsEndScrollSession ==
    [][\/ nKeys' = nKeys
       \/ /\ history'.viewing_entry = None
          /\ history.viewing_entry = None
          /\ history'.saved_line = history.saved_line
       \/ \A event \in KeyEvents :
            \/ /\ IsEdit(event) => history'.viewing_entry = None
               /\ event.kind \in NavKinds =>
                    /\ history'.viewing_entry = history.viewing_entry
                    /\ history'.saved_line = history.saved_line
            \/ history' # handle_key_event([line |-> line, history |-> history],
                                           event).history
            \/ ~\E f \in 0..MaxCalls : Dispatch(event, f)]_vars

\* C30 witness: the second read_line call, with "a" committed by the first:
\* Up loaded "a" and opened a view, then Delete or CtrlDelete at the end of
\* the line deleted nothing and the view is closed.
C30_Witness ==
    /\ pc = "loop"
    /\ nReads = 2
    /\ nKeys = 3
    /\ upSeen
    /\ history.entries = <<<<97>>>>
    /\ history.viewing_entry = None
    /\ line = [buffer |-> <<97>>, cursor_pos |-> 1]

\* ------------------------------------------------------------------ terminal backends
\* parse_key_event of a backend is modelled on the bytes s its input holds:
\* the k-th read_byte of the call returns s[k], and a read past the end of s
\* does not return (-1 here; the call then has n > Len(s) and is pending).
MaxParseKeys == 2

read_byte(s, k) == IF k <= Len(s) THEN s[k] ELSE -1

\* (32..127).contains(&c)
IsPrintable(c) == c >= 32 /\ c < 127

\* u8::is_ascii_alphabetic
is_ascii_alphabetic(c) == (c >= 65 /\ c <= 90) \/ (c >= 97 /\ c <= 122)

\* StdioTerminal::parse_key_event (unix).
parse_key_event_unix(s) ==
    LET c == read_byte(s, 1)
        c2 == read_byte(s, 2)
        c3 == read_byte(s, 3)
        c4 == read_byte(s, 4)
        c5 == read_byte(s, 5)
        c6 == read_byte(s, 6)
        \* the code after the `if c2 == b'['` block, n bytes read so far
        unknown(n) == IF IsPrintable(c2) THEN Parsed(Normal(c2), n)
                      ELSE Parsed(Normal(0), n)
    IN  IF c = 13 \/ c = 10 THEN Parsed(Key("Enter"), 1)
        ELSE IF c = 127 \/ c = 8 THEN Parsed(Key("Backspace"), 1)
        ELSE IF c = 27 THEN
            IF c2 = 127 \/ c2 = 8 THEN Parsed(Key("AltBackspace"), 2)
            ELSE IF c2 = 91 THEN
                CASE c3 = 65 -> Parsed(Key("Up"), 3)
                  [] c3 = 66 -> Parsed(Key("Down"), 3)
                  [] c3 = 67 -> Parsed(Key("Right"), 3)
                  [] c3 = 68 -> Parsed(Key("Left"), 3)
                  [] c3 = 72 -> Parsed(Key("Home"), 3)
                  [] c3 = 70 -> Parsed(Key("End"), 3)
                  [] c3 = 49 ->
                       IF c4 = 126 THEN Parsed(Key("Home"), 4)
                       ELSE IF c4 = 59 THEN
                           IF c5 = 53 THEN
                               CASE c6 = 67 -> Parsed(Key("CtrlRight"), 6)
                                 [] c6 = 68 -> Parsed(Key("CtrlLeft"), 6)
                                 [] OTHER -> unknown(6)
                           ELSE unknown(5)
                       ELSE unknown(4)
                  [] c3 = 51 ->
                       IF c4 = 126 THEN Parsed(Key("Delete"), 4)
                       ELSE IF c4 = 59 THEN
                           IF c5 = 53 THEN
                               IF c6 = 126 THEN Parsed(Key("CtrlDelete"), 6)
                               ELSE unknown(6)
                           ELSE unknown(5)
                       ELSE unknown(4)
                  [] c3 = 52 ->
                       IF c4 = 126 THEN Parsed(Key("End"), 4) ELSE unknown(4)
                  [] OTHER -> unknown(3)
            ELSE unknown(2)
        ELSE IF IsPrintable(c) THEN Parsed(Normal(c), 1)
        ELSE Parsed(Normal(0), 1)

\* EmbassyUsbTerminal::parse_key_event.
parse_key_event_embassy_usb(s) ==
    LET b == read_byte(s, 1)
        b2 == read_byte(s, 2)
        b3 == read_byte(s, 3)
        b4 == read_byte(s, 4)
        b5 == read_byte(s, 5)
        b6 == read_byte(s, 6)
    IN  CASE b >= 32 /\ b <= 126 -> Parsed(Normal(b), 1)
          [] b = 8 \/ b = 127 -> Parsed(Key("Backspace"), 1)
          [] b = 13 \/ b = 10 -> Parsed(Key("Enter"), 1)
          [] b = 9 -> Parsed(Normal(9), 1)
          [] b = 27 ->
               CASE b2 = 91 ->
                      CASE b3 = 65 -> Parsed(Key("Up"), 3)
                        [] b3 = 66 -> Parsed(Key("Down"), 3)
                        [] b3 = 67 -> Parsed(Key("Right"), 3)
                        [] b3 = 68 -> Parsed(Key("Left"), 3)
                        [] b3 = 72 -> Parsed(Key("Home"), 3)
                        [] b3 = 70 -> Parsed(Key("End"), 3)
                        [] b3 = 51 ->
                             IF b4 = 126 THEN Parsed(Key("Delete"), 4)
                             ELSE Parsed(Normal(32), 4)
                        [] b3 = 49 ->
                             CASE b4 = 126 -> Parsed(Key("Home"), 4)
                               [] b4 = 59 ->
                                    IF b5 = 53 THEN
                                        CASE b6 = 67 -> Parsed(Key("CtrlRight"), 6)
                                          [] b6 = 68 -> Parsed(Key("CtrlLeft"), 6)
                                          [] OTHER -> Parsed(Normal(32), 6)
                                    ELSE Parsed(Normal(32), 5)
                               [] OTHER -> Parsed(Normal(32), 4)
                        [] b3 = 52 ->
                             IF b4 = 126 THEN Parsed(Key("End"), 4)
                             ELSE Parsed(Normal(32), 4)
                        [] OTHER -> Parsed(Normal(32), 3)
                 [] b2 = 127 -> Parsed(Key("AltBackspace"), 2)
                 [] OTHER -> Parsed(Normal(32), 2)
          [] b = 3 -> ParseErr("Interrupted", 1)
          [] b = 4 -> ParseErr("Eof", 1)
          [] OTHER -> Parsed(Normal(32), 1)

\* The drain loop of UsbCdcTerminal::parse_key_event: the index of the first
\* byte from k on that is a letter or '~' (or that is not there yet).
RECURSIVE Drain(_, _)
Drain(s, k) ==
    LET byte == read_byte(s, k)
    IN  IF byte # -1 /\ ~is_ascii_alphabetic(byte) /\ byte # 126
        THEN Drain(s, k + 1)
        ELSE k

\* UsbCdcTerminal::parse_key_event (rp_pico_usb).
parse_key_event_rp_pico_usb(s) ==
    LET c == read_byte(s, 1)
        c2 == read_byte(s, 2)
        c3 == read_byte(s, 3)
        c4 == read_byte(s, 4)
        c5 == read_byte(s, 5)
        c6 == read_byte(s, 6)
    IN  IF c = 13 \/ c = 10 THEN Parsed(Key("Enter"), 1)
        ELSE IF c = 127 \/ c = 8 THEN Parsed(Key("Backspace"), 1)
        ELSE IF c = 27 THEN
            IF c2 = 127 \/ c2 = 8 THEN Parsed(Key("AltBackspace"), 2)
            ELSE IF c2 = 91 THEN
                CASE c3 = 65 -> Parsed(Key("Up"), 3)
                  [] c3 = 66 -> Parsed(Key("Down"), 3)
                  [] c3 = 67 -> Parsed(Key("Right"), 3)
                  [] c3 = 68 -> Parsed(Key("Left"), 3)
                  [] c3 = 72 -> Parsed(Key("Home"), 3)
                  [] c3 = 70 -> Parsed(Key("End"), 3)
                  [] c3 = 51 ->
                       IF c4 = 126 THEN Parsed(Key("Delete"), 4)
                       ELSE IF c4 = 59 THEN
                           IF c5 = 53 THEN
                               IF c6 = 126 THEN Parsed(Key("CtrlDelete"), 6)
                               ELSE Parsed(Normal(0), 6)
                           ELSE Parsed(Normal(0), 5)
                       ELSE Parsed(Normal(0), 4)
                  [] c3 = 49 ->
                       IF c4 = 59 THEN
                           IF c5 = 53 THEN
                               CASE c6 = 68 -> Parsed(Key("CtrlLeft"), 6)
                                 [] c6 = 67 -> Parsed(Key("CtrlRight"), 6)
                                 [] OTHER -> Parsed(Normal(0), 6)
                           ELSE Parsed(Normal(0), 5)
                       ELSE Parsed(Normal(0), 4)
                  [] OTHER -> Parsed(Normal(0), Drain(s, 3))
            ELSE Parsed(Normal(0), 2)
        ELSE IF IsPrintable(c) THEN Parsed(Normal(c), 1)
        ELSE Parsed(Normal(0), 1)

Backends == {"unix", "embassy_usb", "rp_pico_usb"}

parse_key_event(backend, s) ==
    CASE backend = "unix" -> parse_key_event_unix(s)
      [] backend = "embassy_usb" -> parse_key_event_embassy_usb(s)
      [] OTHER -> parse_key_event_rp_pico_usb(s)

\* Keys the terminal sends, as the bytes of each: the keys of KeyEvent ...
KnownKeys ==
    {<<97>>, <<13>>, <<127>>, <<27, 127>>, <<27, 91, 65>>, <<27, 91, 68>>,
     <<27, 91, 51, 126>>, <<27, 91, 49, 59, 53, 67>>}

\* ... Ctrl-C and Ctrl-D ...
CtrlC == <<3>>
CtrlD == <<4>>

\* ... and keys KeyEvent has no variant for: Ctrl-A, Escape, Shift-Tab
\* (ESC [ Z), F1 (ESC O P), Insert (ESC [ 2 ~), Shift-Right (ESC [ 1 ; 2 C),
\* Shift-Delete (ESC [ 3 ; 2 ~), F5 (ESC [ 1 5 ~).
UnknownKeys ==
    {<<1>>, <<27>>, <<27, 91, 90>>, <<27, 79, 80>>, <<27, 91, 50, 126>>,
     <<27, 91, 49, 59, 50, 67>>, <<27, 91, 51, 59, 50, 126>>,
     <<27, 91, 49, 53, 126>>}

ParseKeys == KnownKeys \cup {CtrlC, CtrlD} \cup UnknownKeys

\* The bytes the backend has not read yet: the keys sent, less the off bytes
\* of the first that earlier calls read.
RECURSIVE Flatten(_)
Flatten(keys) == IF keys = <<>> THEN <<>> ELSE Head(keys) \o Flatten(Tail(keys))
Pending(p) == SubSeq(Flatten(p.keys), p.off + 1, Len(Flatten(p.keys)))

\* The keys left, and the offset into the first, after k more bytes were read.
RECURSIVE Advance(_, _)
Advance(keys, k) ==
    IF keys = <<>> THEN [keys |-> <<>>, off |-> 0]
    ELSE IF k >= Len(Head(keys)) THEN Advance(Tail(keys), k - Len(Head(keys)))
    ELSE [keys |-> keys, off |-> k]

InitParse ==
    /\ line = LineBuffer_new
    /\ history = History_new(1)
    /\ lastOp = NoOp
    /\ DriverIdle
    /\ EngineIdle
    /\ \E backend \in Backends, keys \in UNION {[1..k -> ParseKeys] : k \in 0..MaxParseKeys} :
         parser = [ParserIdle EXCEPT !.backend = backend, !.keys = keys]

\* One parse_key_event call that returns: it reads res.n bytes; key is the
\* key the call started in, fresh whether it started at that key's first byte.
ParseKey ==
    LET res == parse_key_event(parser.backend, Pending(parser))
        rest == Advance(parser.keys, parser.off + res.n)
    IN  /\ parser.keys # <<>>
        /\ res.n <= Len(Pending(parser))
        /\ parser' = [parser EXCEPT !.keys = rest.keys, !.off = rest.off,
                                    !.key = Head(parser.keys),
                                    !.fresh = (parser.off = 0),
                                    !.res = res]
        /\ UNCHANGED <<line, history, lastOp, inserted, histVars, engineVars>>

NextParse == ParseKey

SpecParse == InitParse /\ [][NextParse]_vars

\* C26 (as claimed): in every backend, a parse_key_event call that starts at
\* the first byte of a key KeyEvent has no variant for (an unrecognized
\* escape sequence, a lone Escape, an unhandled control byte) returns
\* Normal('\0') and reads the bytes of that key, no more and no fewer.
C26_UnknownKeyIsNul ==
    (parser.fresh /\ parser.key \in UnknownKeys) =>
        /\ parser.res.ok
        /\ parser.res.ev = Normal(0)
        /\ parser.res.n = Len(parser.key)

\* C27 (as claimed): in every backend, a parse_key_event call that starts at
\* Ctrl-C (0x03) returns Err(Error::Interrupted) and one that starts at
\* Ctrl-D (0x04) returns Err(Error::Eof).
C27_CtrlCAndCtrlD ==
    /\ (parser.fresh /\ parser.key = CtrlC) =>
           (~parser.res.ok /\ parser.res.err = "Interrupted")
    /\ (parser.fresh /\ parser.key = CtrlD) =>
           (~parser.res.ok /\ parser.res.err = "Eof")

\* ------------------------------------------------------------------ engine, continued
\* C31: with all calls succeeding, the Terminal calls of every handled
\* (non-Enter) key event end with a flush and fetch no key event, so the
\* flush comes before the next parse_key_event; after Enter the terminator
\* write is followed by a flush, the history is committed only after both,
\* and exit_raw_mode comes last.
C31_FlushAfterEveryEvent ==
    [][/\ (pc' = "loop" /\ nKeys' = nKeys + 1) =>
            \A event \in KeyEvents :
              LET calls == handle_key_event([line |-> line, history |-> history],
                                            event).calls
              IN  \/ /\ calls # <<>>
                     /\ calls[Len(calls)].op = "flush"
                     /\ \A i \in 1..Len(calls) : calls[i].op # "parse_key_event"
                  \/ ~Dispatch(event, 0)
       /\ (pc = "loop" /\ pc' = "idle" /\ nKeys' = nKeys) =>
            /\ enter_calls(flavor)
                 = <<Call("write", Terminator(flavor)), Call("flush", <<>>)>>
            /\ history' # history => term'.firstErr \in {"", "exit_raw_mode"}
            /\ term'.exits = 1 /\ ~term'.afterExit]_vars

\* C31 witness: a read_line call in which a key event was handled returned
\* Ok after Enter and committed the line.
C31_Witness ==
    /\ Returned
    /\ Unwrap(ret) = Ok(<<97>>)
    /\ ~term.failed
    /\ nKeys = 1
    /\ history.entries = <<<<97>>>>

\* The terminal as a row of cells with a column, from the line's start
\* column: write puts bytes and advances, cursor_left and cursor_right step
\* by one, clear_eol erases from the column on.
Screen(cells, col) == [cells |-> cells, col |-> col]

ScreenCall(scr, call) ==
    CASE call.op = "write" ->
           Screen(SubSeq(scr.cells, 1, scr.col) \o call.data
                    \o SubSeq(scr.cells, scr.col + Len(call.data) + 1,
                              Len(scr.cells)),
                  scr.col + Len(call.data))
      [] call.op = "cursor_left" -> Screen(scr.cells, scr.col - 1)
      [] call.op = "cursor_right" -> Screen(scr.cells, scr.col + 1)
      [] call.op = "clear_eol" -> Screen(SubSeq(scr.cells, 1, scr.col), scr.col)
      [] OTHER -> scr

RECURSIVE ScreenCalls(_, _)
ScreenCalls(scr, calls) ==
    IF calls = <<>> THEN scr
    ELSE ScreenCalls(ScreenCall(scr, Head(calls)), Tail(calls))

OneByteChars(bytes) == \A i \in 1..Len(bytes) : bytes[i] < 128

\* C32: with one-byte characters only and all calls succeeding, a handled
\* key event keeps the display in agreement with the Line Buffer: when the
\* cells from the line's start column equal the buffer bytes and the column
\* is start column + cursor_pos before it, they do so after it.
C32_DisplayMatchesBuffer ==
    [][(/\ pc' = "loop"
        /\ nKeys' = nKeys + 1
        /\ OneByteChars(line.buffer)
        /\ OneByteChars(line'.buffer)) =>
          \A event \in KeyEvents :
            LET r == handle_key_event([line |-> line, history |-> history], event)
            IN  \/ line' # r.line
                \/ ScreenCalls(Screen(line.buffer, line.cursor_pos), r.calls)
                     = Screen(line'.buffer, line'.cursor_pos)
                \/ ~Dispatch(event, 0)]_vars

\* C32 witness: in the first read_line call, three key events left " a"
\* with the cursor between the two characters.
C32_Witness ==
    /\ pc = "loop"
    /\ nReads = 1
    /\ nKeys = 3
    /\ line = [buffer |-> <<32, 97>>, cursor_pos |-> 1]

\* C33 (as claimed): the event Normal('\0') is a no-op for the engine: in
\* every state of the loop, handling it leaves the Line Buffer bytes and
\* the cursor unchanged.
C33_NulIsNoOp ==
    (pc = "loop" /\ Len(line.buffer) < MaxLineLen) =>
        handle_key_event([line |-> line, history |-> history], Normal(0)).line
          = line

C36_ExitBeforeError ==
    (Returned /\ ~Unwrap(ret).ok) => term.exits >= 1

\* Lines a read_line call may be given after the calls made so far.
NextLines == {<<97>>, <<195, 164>>, <<97, 97>>}

\* C37 (as claimed): from every History state the engine has reached between
\* two read_line calls, a further call that returns Ok(L) with L non-empty
\* leaves the view inactive and L as the line the first Up event of the call
\* after it loads.
C37_UpLoadsReturnedLine ==
    pc = "idle" =>
      \A L \in NextLines :
        LET fin == finalize([line |-> [buffer |-> L, cursor_pos |-> Len(L)],
                             history |-> history])
            up == handle_key_event([line |-> clear(line), history |-> fin.history],
                                   UpEvent)
        IN  (fin.result.ok /\ fin.result.line # <<>>) =>
              /\ fin.history.viewing_entry = None
              /\ up.line.buffer = fin.result.line

====
